---- MODULE Spec2Model ----
(***************************************************************************)
(* Model of colablib's concurrent batch helpers:                           *)
(*   colablib/utils/git_utils.py      batch_clone, batch_update            *)
(*   colablib/sd_models/downloader.py batch_download                       *)
(* together with the single-item executors they submit to the thread pool  *)
(* (clone_repo, update_repo, download) and the console (cprint) and        *)
(* progress bar (tqdm) they write to; and of the helpers around them:      *)
(* the steps of clone_repo and of download, get_url, get_headers,          *)
(* parse_args, update_repo, extract_package and nested_zip_extractor.      *)
(***************************************************************************)
EXTENDS Integers, Sequences, FiniteSets, TLC

\* Largest input list explored.
MaxN == 3
\* Number of worker threads of the pool explored (ThreadPoolExecutor() takes
\* the runtime's default; the model keeps it below MaxN so that requests queue).
MaxWorkers == 2

Ops == {"batch_clone", "batch_update", "batch_download"}

\* Substrings the reporting steps look for in a lower-cased message.
Markers == {"already exists", "failed", "error"}

(***************************************************************************)
(* Messages.  A message is modelled by the text template it comes from and *)
(* the set of marker substrings its lower-cased text contains.             *)
(***************************************************************************)
None == [text |-> "None", marks |-> {}]

Msg(text, marks) == [text |-> text, marks |-> marks]

\* Python truthiness of a returned message: None and "" are falsy.
Truthy(m) == m.text \notin {"None", "empty"}

(***************************************************************************)
(* What the environment does to one request: whether something raises      *)
(* inside the executor, whether the destination exists, the exit status of *)
(* the external process (git clone, git pull, aria2c) and of git fetch,    *)
(* the markers contained in the repository name and in the process's       *)
(* stderr, and whether git pull says "Already up to date.".                *)
(***************************************************************************)
Env(throws, exists, returncode, fetchcode, name, stderr, uptodate) ==
    [throws |-> throws, exists |-> exists, returncode |-> returncode,
     fetchcode |-> fetchcode, name |-> name, stderr |-> stderr, uptodate |-> uptodate]

CloneEnvs ==
    { Env(TRUE,  FALSE, 0, 0, {}, {}, FALSE),                  \* subprocess.run raises
      Env(FALSE, TRUE,  0, 0, {}, {}, FALSE),                  \* destination exists
      Env(FALSE, FALSE, 0, 0, {}, {}, FALSE),                  \* git clone exits 0
      Env(FALSE, FALSE, 0, 0, {"error"}, {}, FALSE),           \* ... repository named e.g. 'error-pages'
      Env(FALSE, FALSE, 1, 0, {}, {}, FALSE),                  \* git clone exits non-zero
      Env(FALSE, FALSE, 1, 0, {}, {"already exists"}, FALSE) } \* ... "destination path already exists"

UpdateEnvs ==
    { Env(TRUE,  FALSE, 0, 0, {}, {}, FALSE),                  \* validate_repo raises
      Env(FALSE, FALSE, 0, 0, {}, {}, TRUE),                   \* Already up to date.
      Env(FALSE, FALSE, 0, 0, {}, {}, FALSE),                  \* pulled new commits
      Env(FALSE, FALSE, 1, 0, {}, {}, FALSE) }                 \* git pull exits non-zero

DownloadEnvs ==
    { Env(TRUE,  FALSE, 0, 0, {}, {}, FALSE),                  \* get_url / copy raises
      Env(FALSE, FALSE, 0, 0, {}, {}, FALSE),                  \* aria2c exits 0
      Env(FALSE, FALSE, 1, 0, {}, {}, FALSE) }                 \* aria2c exits non-zero

Envs(o) ==
    CASE o = "batch_clone"    -> CloneEnvs
      [] o = "batch_update"   -> UpdateEnvs
      [] o = "batch_download" -> DownloadEnvs

(***************************************************************************)
(* The single-item executors.  Each yields what Future.result() will do:   *)
(* return a value or raise.                                                *)
(***************************************************************************)
Returns(v) == [raised |-> FALSE, value |-> v]
Raises == [raised |-> TRUE, value |-> None]

\* git_utils.clone_repo called with batch=True (the checkout that may follow
\* the clone does not change the message returned).
clone_repo(e) ==
    IF e.throws THEN Returns(None)
    ELSE IF e.exists THEN Returns(Msg("already_exists", {"already exists"} \cup e.name))
    ELSE IF e.returncode = 0 THEN Returns(Msg("clone_ok", e.name))
    ELSE Returns(Msg("clone_failed", {"failed", "error"} \cup e.stderr \cup e.name))

\* git_utils.update_repo called with batch=True: the message starts empty, a
\* failed fetch sets it, and the pull then overwrites it unless the
\* repository is already up to date.
update_repo(fetch, pull, e) ==
    IF e.throws THEN Returns(None)
    ELSE LET fetched == IF fetch /\ e.fetchcode # 0
                        THEN Msg("fetch_error", {"error"} \cup e.stderr)
                        ELSE Msg("empty", {})
         IN  IF ~pull THEN Returns(fetched)
             ELSE IF e.returncode # 0 THEN Returns(Msg("pull_error", {"error"} \cup e.stderr))
             ELSE IF e.uptodate THEN Returns(fetched)
             ELSE Returns(Msg("updated", e.name))

\* sd_models.downloader.download: no return value, the exit status of aria2c
\* is not looked at, exceptions are not caught.
download(e) ==
    IF e.throws THEN Raises ELSE Returns(None)

Executor(o, e) ==
    CASE o = "batch_clone"    -> clone_repo(e)
      [] o = "batch_update"   -> update_repo(FALSE, TRUE, e)   \* fetch=False, pull=True
      [] o = "batch_download" -> download(e)

(***************************************************************************)
(* Console and progress bar.                                               *)
(***************************************************************************)
\* One line written by cprint: what it is ("status" for a per-item " [-] ..."
\* line, "error" for the line a handler of the collection loop prints,
\* "blank" for cprint() without text), its color, and the request it is
\* about (0 for none).
Line(kind, color, req) == [kind |-> kind, color |-> color, req |-> req]

\* tqdm(total=..., disable=...)
tqdm(total, disable) == [n |-> 0, total |-> total, disable |-> disable]

\* tqdm.update(1): a disabled bar does not count.
\* Variant of update: the bar is advanced by two.
update_twice(bar) == IF bar.disable THEN bar ELSE [bar EXCEPT !.n = @ + 2]

update(bar) == IF bar.disable THEN bar ELSE [bar EXCEPT !.n = @ + 1]

\* Color chosen by the reporting step of batch_clone.
CloneColor(m) ==
    IF "already exists" \in m.marks THEN "yellow"
    ELSE IF m.marks \cap {"failed", "error"} = {} THEN "green"
    ELSE "red"

\* Color chosen by the reporting step of batch_update.
UpdateColor(m) ==
    IF m.marks \cap {"failed", "error"} = {} THEN "green"
    ELSE IF "already exists" \in m.marks THEN "yellow"
    ELSE "red"

ReportColor(o, m) == IF o = "batch_clone" THEN CloneColor(m) ELSE UpdateColor(m)

(***************************************************************************)
(* State.                                                                  *)
(***************************************************************************)
VARIABLES
    op,        \* which batch operation was called
    quiet,     \* its quiet argument
    urls,      \* its input list: one environment per request
    futures,   \* the futures submitted so far, in submission order
    yielded,   \* the futures as_completed has handed to the loop
    results,   \* batch_clone / batch_update: results dict, in insertion order
    pbar,      \* the tqdm bar
    console,   \* the lines printed so far
    pc,        \* where the batch operation is
    rpos,      \* reporting step: next entry of results to report
    raised,    \* an exception has escaped the batch operation
    crashed,   \* the request whose status line could not be printed (0: none)
    call,      \* clone_repo executions: the arguments of the batch_clone call
    fs,        \* clone_repo executions: the directories that exist
    reqs,      \* clone_repo executions: where each execution is
    cresults,  \* clone_repo executions: the messages collected so far
    dl,        \* a single download(url, dst, config) call
    fn         \* a single call of a helper: its name, its argument, its result

\* The variables of the batch operation, of the clone_repo executions and of
\* the single download.
bvars == <<op, quiet, urls, futures, yielded, results, pbar, console, pc, rpos, raised, crashed>>
cvars == <<call, fs, reqs, cresults>>
uvars == <<dl>>
pvars == <<fn>>

vars == <<bvars, cvars, uvars, pvars>>

N == Len(urls)

Future(state, outcome) == [state |-> state, outcome |-> outcome]

Running == {i \in 1..Len(futures) : futures[i].state = "RUNNING"}
\* Variant of Pending: a work item whose executor raised is queued again.
Pending_retry ==
    {i \in 1..Len(futures) : futures[i].state = "PENDING"
                              \/ (futures[i].state = "FINISHED" /\ futures[i].outcome.raised)}

Pending == {i \in 1..Len(futures) : futures[i].state = "PENDING"}
Finished == {i \in 1..Len(futures) : futures[i].state = "FINISHED"}

\* No clone_repo execution is looked at.
CloneIdle == call = <<>> /\ fs = {} /\ reqs = <<>> /\ cresults = <<>>

\* No single download is looked at.
UrlIdle == dl = <<>>

\* No single call of a helper is looked at.
PureIdle == fn = <<>>

Init ==
    /\ op \in Ops
    /\ quiet \in BOOLEAN
    /\ urls \in UNION {[1..n -> Envs(op)] : n \in 0..MaxN}
    /\ futures = <<>>
    /\ yielded = {}
    /\ results = <<>>
    /\ pbar = tqdm(0, TRUE)
    /\ console = <<>>
    /\ pc = "submit"
    /\ rpos = 1
    /\ raised = FALSE
    /\ crashed = 0
    /\ CloneIdle
    /\ UrlIdle
    /\ PureIdle

(***************************************************************************)
(* The thread pool.                                                        *)
(***************************************************************************)
\* Variant of IdleWorker: a worker that finished a work item is not given the
\* next one.
IdleWorker_leak == Cardinality(Running \cup Finished) < MaxWorkers

\* A worker thread is free to take the next work item of the queue.
IdleWorker == Cardinality(Running) < MaxWorkers

\* A worker takes the oldest queued work item.
WorkerStart(i) ==
    /\ i \in Pending
    /\ \A j \in Pending : i <= j
    /\ IdleWorker
    /\ futures' = [futures EXCEPT ![i].state = "RUNNING"]
    /\ UNCHANGED <<op, quiet, urls, yielded, results, pbar, console, pc, rpos, raised>>
    /\ UNCHANGED <<crashed, cvars, uvars, pvars>>

\* Variant of BatchFlag: the helpers call the executor without batch=True.
BatchFlag_unset == FALSE

\* The batch argument the git helpers pass to clone_repo / update_repo.
BatchFlag == TRUE

\* The color clone_repo / update_repo give their own status line.
SelfColor(e, m) ==
    IF e.throws THEN "red"
    ELSE IF e.exists THEN "yellow"
    ELSE IF m.marks \cap {"failed", "error"} = {} THEN "green"
    ELSE "red"

\* What the executor itself prints while it runs in the worker: clone_repo
\* and update_repo print their message "if not quiet and not batch";
\* batch_download calls download with quiet=True, which prints nothing.
ExecutorLines(o, q, batch, i, e) ==
    IF o = "batch_download" \/ q \/ batch THEN <<>>
    ELSE <<Line("status", SelfColor(e, Executor(o, e).value), i)>>

\* The executor returns or raises; the worker stores that in the future.
WorkerFinish(i) ==
    /\ i \in Running
    /\ futures' = [futures EXCEPT ![i] = Future("FINISHED", Executor(op, urls[i]))]
    /\ console' = console \o ExecutorLines(op, quiet, BatchFlag, i, urls[i])
    /\ UNCHANGED <<op, quiet, urls, yielded, results, pbar, pc, rpos, raised>>
    /\ UNCHANGED <<crashed, cvars, uvars, pvars>>

(***************************************************************************)
(* The batch operation.                                                    *)
(***************************************************************************)
\* executor.submit(...) for the next url of the list
Submit ==
    /\ pc = "submit"
    /\ Len(futures) < N
    /\ futures' = Append(futures, Future("PENDING", Returns(None)))
    /\ UNCHANGED <<op, quiet, urls, yielded, results, pbar, console, pc, rpos, raised>>
    /\ UNCHANGED <<crashed, cvars, uvars, pvars>>

\* All submitted: the progress bar is created and the collection loop starts.
\* batch_download disables its bar when quiet; the git helpers never do.
OpenProgress ==
    /\ pc = "submit"
    /\ Len(futures) = N
    /\ pbar' = tqdm(N, op = "batch_download" /\ quiet)
    /\ pc' = "collect"
    /\ UNCHANGED <<op, quiet, urls, futures, yielded, results, console, rpos, raised>>
    /\ UNCHANGED <<crashed, cvars, uvars, pvars>>

\* Variant of RecordResult: the result is rebuilt around the newest outcome,
\* as "results = {future: future.result()}" would do.
RecordResult_latest(res, i, m) == <<[req |-> i, msg |-> m]>>

\* Variant of RecordResult: only a non-empty message is stored.
RecordResult_truthy(res, i, m) ==
    IF Truthy(m) THEN Append(res, [req |-> i, msg |-> m]) ELSE res

\* results[future] = future.result()
RecordResult(res, i, m) == Append(res, [req |-> i, msg |-> m])

\* Variant of Caught: result() is called outside any try block.
Caught_nothing(outcome) == FALSE

\* except Exception: every exception result() raises is caught by the loop.
Caught(outcome) == outcome.raised

\* Variant of AfterHandler: batch_download's handler returns None as the git
\* helpers' handlers do.
AfterHandler_return(o) == "abort"

\* Variant of AfterHandler: the handler leaves the operation without going
\* through the pool's shutdown.
AfterHandler_nowait(o) == "done"

\* Where the collection loop goes after its handler ran: batch_download goes on
\* with the next future; the git helpers return None from inside the with
\* block, which first shuts the pool down.
AfterHandler(o) == IF o = "batch_download" THEN "collect" ELSE "abort"

\* What the handler prints, whatever quiet is.
HandlerLines(o, q, i) == <<Line("error", "flat_red", i)>>

\* One iteration of "for future in as_completed(futures)".
Collect(i) ==
    /\ pc = "collect"
    /\ i \in Finished \ yielded
    /\ yielded' = yielded \cup {i}
    /\ LET out == futures[i].outcome IN
       IF out.raised
       THEN IF Caught(out)
            THEN /\ console' = console \o HandlerLines(op, quiet, i)
                 /\ pc' = AfterHandler(op)
                 /\ UNCHANGED <<results, pbar, raised>>
            ELSE /\ raised' = TRUE
                 /\ pc' = "abort"
                 /\ UNCHANGED <<results, pbar, console>>
       ELSE /\ results' = IF op = "batch_download" THEN results
                          ELSE RecordResult(results, i, out.value)
            /\ pbar' = update(pbar)
            /\ UNCHANGED <<console, pc, raised>>
    /\ UNCHANGED <<op, quiet, urls, futures, rpos>>
    /\ UNCHANGED <<crashed, cvars, uvars, pvars>>

\* as_completed is exhausted: the loop ends and the with block is left.
LoopEnd ==
    /\ pc = "collect"
    /\ Len(futures) = N
    /\ yielded = 1..N
    /\ pc' = "shutdown"
    /\ UNCHANGED <<op, quiet, urls, futures, yielded, results, pbar, console, rpos, raised>>
    /\ UNCHANGED <<crashed, cvars, uvars, pvars>>

\* The pool may be left once nothing is queued or running.
PoolDrained == Len(futures) = N /\ Finished = 1..N

\* ThreadPoolExecutor.__exit__: shutdown(wait=True).  After a normal end of
\* the loop the code after the with block follows, if any; after the handler's
\* return None or an exception in flight ("abort") the operation is over.
Shutdown ==
    /\ pc \in {"shutdown", "abort"}
    /\ PoolDrained
    /\ pc' = IF pc = "abort" \/ op = "batch_download" \/ quiet THEN "done" ELSE "report"
    /\ UNCHANGED <<op, quiet, urls, futures, yielded, results, pbar, console, rpos, raised>>
    /\ UNCHANGED <<crashed, cvars, uvars, pvars>>

\* if not any(message for message in results.values()): cprint()
ReportHead(res) ==
    IF \E k \in 1..Len(res) : Truthy(res[k].msg) THEN <<>> ELSE <<Line("blank", "default", 0)>>

\* One iteration of "for future, message in results.items()".
ReportItem(o, entry) ==
    IF Truthy(entry.msg) THEN <<Line("status", ReportColor(o, entry.msg), entry.req)>> ELSE <<>>

\* Variant of ReportTail: batch_update ends with cprint() too.
ReportTail_all(o) == <<Line("blank", "default", 0)>>

\* batch_clone ends with cprint(); batch_update does not.
ReportTail(o) == IF o = "batch_clone" THEN <<Line("blank", "default", 0)>> ELSE <<>>

ReportStart ==
    /\ pc = "report"
    /\ console' = console \o ReportHead(results)
    /\ rpos' = 1
    /\ pc' = "report_items"
    /\ UNCHANGED <<op, quiet, urls, futures, yielded, results, pbar, raised>>
    /\ UNCHANGED <<crashed, cvars, uvars, pvars>>

ReportNext ==
    /\ pc = "report_items"
    /\ rpos <= Len(results)
    /\ console' = console \o ReportItem(op, results[rpos])
    /\ rpos' = rpos + 1
    /\ UNCHANGED <<op, quiet, urls, futures, yielded, results, pbar, pc, raised>>
    /\ UNCHANGED <<crashed, cvars, uvars, pvars>>

ReportEnd ==
    /\ pc = "report_items"
    /\ rpos > Len(results)
    /\ console' = console \o ReportTail(op)
    /\ pc' = "done"
    /\ UNCHANGED <<op, quiet, urls, futures, yielded, results, pbar, rpos, raised>>
    /\ UNCHANGED <<crashed, cvars, uvars, pvars>>

\* cprint ends in print(), which raises when the text of the line cannot be
\* written to stdout (UnicodeEncodeError, OSError).  The reporting loop has no
\* try block: the exception leaves the batch operation.
ReportCrash ==
    /\ pc = "report_items"
    /\ rpos <= Len(results)
    /\ Truthy(results[rpos].msg)
    /\ crashed' = results[rpos].req
    /\ raised' = TRUE
    /\ pc' = "done"
    /\ UNCHANGED <<op, quiet, urls, futures, yielded, results, pbar, console, rpos>>
    /\ UNCHANGED <<cvars, uvars, pvars>>

Coordinator ==
    \/ Submit
    \/ OpenProgress
    \/ \E i \in 1..MaxN : Collect(i)
    \/ LoopEnd
    \/ Shutdown
    \/ ReportStart
    \/ ReportNext
    \/ ReportEnd

Workers == \E i \in 1..MaxN : WorkerStart(i) \/ WorkerFinish(i)

Next == Coordinator \/ Workers

Spec == Init /\ [][Next]_vars

\* The batch operation on a stdout that may refuse a status line.
FaultNext == Next \/ ReportCrash

FaultSpec == Init /\ [][FaultNext]_vars

\* Whether the operation terminates does not depend on the wording of a
\* message, so the fair specification leaves out the executions that differ
\* from another one only in the markers a repository name or stderr contains.
FairInit == Init /\ \A i \in 1..N : urls[i].name = {} /\ urls[i].stderr = {}

\* The operating system schedules every thread that can run: a worker that can
\* take or finish a work item eventually does, and so does the calling thread.
FairSpec ==
    /\ FairInit
    /\ [][Next]_vars
    /\ WF_vars(Coordinator)
    /\ \A i \in 1..MaxN : WF_vars(WorkerStart(i)) /\ WF_vars(WorkerFinish(i))

(***************************************************************************)
(* The executions of clone_repo inside one batch_clone call, step by step, *)
(* on the filesystem they share.  batch_clone hands every url the same     *)
(* cwd, directory and commit_hash; the pool's default size (min(32, cpus + *)
(* 4), at least 5) lets all MaxClones executions run at once.              *)
(***************************************************************************)
MaxClones == 2

\* A repository URL https://github.com/<owner>/<repo>, and whether git can
\* clone it (the repository exists and the network is up).
Url(owner, repo, up) == [owner |-> owner, repo |-> repo, up |-> up]

CloneUrls ==
    { Url("u", "a", TRUE), Url("v", "a", TRUE), Url("u", "b", TRUE), Url("v", "b", FALSE) }

\* urlparse(url).path.split('/')[-1].replace('.git', ''): the last segment of
\* the path; the owner is dropped.
parsed_url(url) == url.repo

\* The values of the cwd and directory arguments; "" stands for None.
Cwds == {"", "w"}
Directories == {"", "d"}

\* A path: the directory it is relative to ("." is the process's working
\* directory) and its name.
Path(parent, leaf) == <<parent, leaf>>

\* "if not directory: directory = parsed_url"
Directory(i) ==
    IF call.directory = "" THEN parsed_url(call.urls[i]) ELSE call.directory

\* The path clone_repo tests with os.path.exists:
\* os.path.join(cwd, parsed_url) if cwd else directory.
CheckPath(i) ==
    IF call.cwd # "" THEN Path(call.cwd, parsed_url(call.urls[i]))
    ELSE Path(".", Directory(i))

\* The path git clone writes to: "git clone <url> <directory>" run with
\* cwd=cwd (the process's working directory when cwd is None).
Dest(i) == Path(IF call.cwd # "" THEN call.cwd ELSE ".", Directory(i))

\* The paths a call can look at or write to.
CallPaths(c) ==
    LET parent == IF c.cwd # "" THEN c.cwd ELSE "."
    IN  {Path(parent, parsed_url(c.urls[i])) : i \in 1..Len(c.urls)}
        \cup (IF c.directory = "" THEN {} ELSE {Path(parent, c.directory)})

\* The lists of pairwise distinct URLs of length 1..n.
DistinctUrls(n) ==
    {u \in UNION {[1..k -> CloneUrls] : k \in 1..n} :
        \A i, j \in 1..Len(u) : i # j => u[i] # u[j]}

\* One execution of clone_repo: where it is, what os.path.exists answered,
\* whether the clone's destination existed when the execution started, the
\* processes it has started and those still running, the exit status and
\* stderr of git clone, and the message it returns.
Request(at, saw, destExisted, started, procs, rc, stderr, msg) ==
    [at |-> at, saw |-> saw, destExisted |-> destExisted, started |-> started,
     procs |-> procs, rc |-> rc, stderr |-> stderr, msg |-> msg]

Recorded == {cresults[k].req : k \in 1..Len(cresults)}

\* The batch operation itself is not looked at.
BatchIdle ==
    /\ op = "batch_clone"
    /\ quiet = TRUE
    /\ urls = <<>>
    /\ futures = <<>>
    /\ yielded = {}
    /\ results = <<>>
    /\ pbar = tqdm(0, TRUE)
    /\ console = <<>>
    /\ pc = "idle"
    /\ rpos = 1
    /\ raised = FALSE
    /\ crashed = 0

CloneInit ==
    /\ BatchIdle
    /\ UrlIdle
    /\ PureIdle
    /\ call \in {c \in [cwd : Cwds, directory : Directories, commit_hash : BOOLEAN,
                        urls : DistinctUrls(MaxClones), fs0 : SUBSET ({".", "w"} \X {"a", "b", "d"})] :
                    c.fs0 \subseteq CallPaths(c)}
    /\ fs = call.fs0
    /\ reqs = [i \in 1..Len(call.urls) |->
                 Request("check", FALSE, FALSE, {}, {}, 0, {}, None)]
    /\ cresults = <<>>

\* clone_repo up to the existence check; an existing path ends the execution
\* with the "already exists" message.
CloneCheck(i) ==
    /\ i \in DOMAIN reqs
    /\ reqs[i].at = "check"
    /\ LET saw == CheckPath(i) \in fs IN
       reqs' = [reqs EXCEPT ![i].saw = saw,
                            ![i].destExisted = Dest(i) \in fs,
                            ![i].at = IF saw THEN "returned" ELSE "clone",
                            ![i].msg = IF saw THEN clone_repo(Env(FALSE, TRUE, 0, 0, {}, {}, FALSE)).value
                                       ELSE None]
    /\ UNCHANGED <<call, fs, cresults>>
    /\ UNCHANGED <<bvars, uvars, pvars>>

\* subprocess.run starts git clone.  git refuses a destination that exists
\* ("fatal: destination path ... already exists and is not an empty
\* directory"), fails on a repository it cannot reach, and creates the
\* destination otherwise.
CloneStart(i) ==
    /\ i \in DOMAIN reqs
    /\ reqs[i].at = "clone"
    /\ LET taken == Dest(i) \in fs
           ok    == ~taken /\ call.urls[i].up
       IN  /\ reqs' = [reqs EXCEPT ![i].at = "clone_wait",
                                   ![i].started = @ \cup {"clone"},
                                   ![i].procs = @ \cup {"clone"},
                                   ![i].rc = IF ok THEN 0 ELSE 128,
                                   ![i].stderr = IF taken THEN {"already exists"} ELSE {}]
           /\ fs' = IF ok THEN fs \cup {Dest(i)} ELSE fs
    /\ UNCHANGED <<call, cresults>>
    /\ UNCHANGED <<bvars, uvars, pvars>>

\* A process started by the execution exits.
ProcExit(i, p) ==
    /\ i \in DOMAIN reqs
    /\ p \in reqs[i].procs
    /\ reqs' = [reqs EXCEPT ![i].procs = @ \ {p}]
    /\ UNCHANGED <<call, fs, cresults>>
    /\ UNCHANGED <<bvars, uvars, pvars>>

\* Variant of RunReturns: the process is started without being waited for, as
\* subprocess.Popen does.
RunReturns_popen(r, p) == TRUE

\* subprocess.run returns once the process it started has exited.
RunReturns(r, p) == p \notin r.procs

\* subprocess.run returns from git clone: the message is built from the exit
\* status, and "if commit_hash and directory" decides on the checkout.
CloneReturn(i) ==
    /\ i \in DOMAIN reqs
    /\ reqs[i].at = "clone_wait"
    /\ RunReturns(reqs[i], "clone")
    /\ reqs' = [reqs EXCEPT
                 ![i].msg = clone_repo(Env(FALSE, FALSE, reqs[i].rc, 0, {}, reqs[i].stderr, FALSE)).value,
                 ![i].at = IF call.commit_hash /\ Directory(i) # "" THEN "checkout" ELSE "returned"]
    /\ UNCHANGED <<call, fs, cresults>>
    /\ UNCHANGED <<bvars, uvars, pvars>>

\* checkout_repo starts git checkout.
CheckoutStart(i) ==
    /\ i \in DOMAIN reqs
    /\ reqs[i].at = "checkout"
    /\ reqs' = [reqs EXCEPT ![i].at = "checkout_wait",
                            ![i].started = @ \cup {"checkout"},
                            ![i].procs = @ \cup {"checkout"}]
    /\ UNCHANGED <<call, fs, cresults>>
    /\ UNCHANGED <<bvars, uvars, pvars>>

\* subprocess.run returns from git checkout; checkout_repo's message is
\* dropped and clone_repo returns its own.
CheckoutReturn(i) ==
    /\ i \in DOMAIN reqs
    /\ reqs[i].at = "checkout_wait"
    /\ RunReturns(reqs[i], "checkout")
    /\ reqs' = [reqs EXCEPT ![i].at = "returned"]
    /\ UNCHANGED <<call, fs, cresults>>
    /\ UNCHANGED <<bvars, uvars, pvars>>

\* results[future] = future.result() for an execution that has returned.
CloneCollect(i) ==
    /\ i \in DOMAIN reqs
    /\ reqs[i].at = "returned"
    /\ i \notin Recorded
    /\ cresults' = RecordResult(cresults, i, reqs[i].msg)
    /\ UNCHANGED <<call, fs, reqs>>
    /\ UNCHANGED <<bvars, uvars, pvars>>

CloneNext ==
    \E i \in 1..MaxClones :
        \/ CloneCheck(i)
        \/ CloneStart(i)
        \/ \E p \in {"clone", "checkout"} : ProcExit(i, p)
        \/ CloneReturn(i)
        \/ CheckoutStart(i)
        \/ CheckoutReturn(i)
        \/ CloneCollect(i)

CloneSpec == CloneInit /\ [][CloneNext]_vars


(***************************************************************************)
(* One call of sd_models.downloader.download(url, dst, config), step by    *)
(* step.  A URL is what urlparse makes of it: whether urlparse accepts it   *)
(* (it raises ValueError on unbalanced brackets in the authority), the     *)
(* host and port of its authority, whether its path has "/blob/", and its  *)
(* query; apikey is the ApiKey parameter get_url appends ("" for none).    *)
(***************************************************************************)
DownloadUrl(valid, host, port, blob, query, apikey) ==
    [valid |-> valid, host |-> host, port |-> port, blob |-> blob, query |-> query,
     apikey |-> apikey]

\* The host "" is a local path such as /content/drive/MyDrive/model.ckpt.
Hosts ==
    {"huggingface.co", "huggingface.co.example.com", "civitai.com", "www.civitai.com",
     "drive.google.com", "example.com", ""}

\* A URL urlparse rejects has an authority: a local path is always accepted.
DownloadUrls ==
    {u \in {DownloadUrl(v, h, p, b, q, "") :
                v \in BOOLEAN, h \in Hosts, p \in {"", "443"}, b \in BOOLEAN,
                q \in {"", "download=true", "type=Model"}} :
        u.valid \/ u.host # ""}

\* config.token; "None" stands for None.
Tokens == {"None", "", "hf_x", "key"}

\* urlparse(url).netloc: the authority as it is written, port included.
Netloc(url) == <<url.host, url.port>>

\* Variant of TokenGiven: only None counts as a missing token.
TokenGiven_notnone(token) == token # "None"

\* The truth value of self.token: None and "" are falsy.
TokenGiven(token) == token \notin {"None", ""}

\* DownloadConfig.get_url.
get_url(url, token) ==
    IF ~url.valid THEN Raises
    ELSE IF Netloc(url) = <<"huggingface.co", "">>
    THEN Returns([url EXCEPT !.blob = FALSE,
                             !.query = IF @ = "download=true" THEN "" ELSE @])
    ELSE IF Netloc(url) = <<"civitai.com", "">>
    THEN IF ~TokenGiven(token) THEN Raises
         ELSE Returns([url EXCEPT !.apikey = token])
    ELSE Returns(url)

\* One entry k: v of a headers dictionary.
Header(k, v) == [k |-> k, v |-> v]

\* config.headers: no additional header, or one.
ConfigHeaders == {{}, {Header("User-Agent", <<"colablib">>)}}

\* "huggingface.co" in url: the text is looked for anywhere in the URL.
MentionsHuggingface(url) == url.host \in {"huggingface.co", "huggingface.co.example.com"}

\* token.startswith("hf_")
StartsWithHf(token) == token \in {"hf_x"}

\* DownloadConfig.get_headers.
get_headers(url, token, headers) ==
    IF MentionsHuggingface(url) /\ TokenGiven(token) /\ StartsWithHf(token)
    THEN {h \in headers : h.k # "Authorization"} \cup {Header("Authorization", <<"Bearer", token>>)}
    ELSE headers

\* The values of a configuration dictionary: None, a bool, a string or number,
\* or a list.
NoneValue == [kind |-> "none", val |-> 0]
Bool(b) == [kind |-> "bool", val |-> b]
Scalar(x) == [kind |-> "scalar", val |-> x]
List(items) == [kind |-> "list", val |-> items]

Option(k, v) == [k |-> k, v |-> v]

\* The arguments parse_args builds: str(v), f'--{k}={v}' and f'--{k}'.  The
\* value of '--{k}={v}' is the text Python prints for v: for a list, the
\* list itself in brackets.
Positional(v) == [form |-> "positional", key |-> "", value |-> v]
KeyValue(k, v) == [form |-> "key=value", key |-> k, value |-> v]
Flag(k) == [form |-> "flag", key |-> k, value |-> NoneValue]

\* sd_models.downloader.parse_args on the options config[j], config[j+1], ...
RECURSIVE parse_args(_, _)
parse_args(config, j) ==
    IF j > Len(config) THEN <<>>
    ELSE LET k == config[j].k
             v == config[j].v
             arg == IF k = "_url" THEN <<Positional(v)>>
                    ELSE IF v.kind # "none" /\ v.kind # "bool" THEN <<KeyValue(k, v)>>
                    ELSE IF v.kind = "bool" /\ v.val THEN <<Flag(k)>>
                    ELSE <<>>
         IN  arg \o parse_args(config, j + 1)

\* aria2_download's aria2_config: the header option is the list of the
\* "k: v" texts, the empty list when there are no headers.
aria2_config(url, headers) ==
    << Option("console-log-level", Scalar("error")),
       Option("summary-interval", Scalar(10)),
       Option("header", List(headers)),
       Option("continue", Bool(TRUE)),
       Option("max-connection-per-server", Scalar(16)),
       Option("min-split-size", Scalar("1M")),
       Option("split", Scalar(16)),
       Option("dir", Scalar("dst")),
       Option("out", Scalar("filename")),
       Option("_url", Scalar(url)) >>

\* What aria2_download hands to aria2c.
aria2_args(url, headers) == parse_args(aria2_config(url, headers), 1)

\* The branch of download that moves the data.
Method(url) ==
    IF url.host = "drive.google.com" THEN "gdown"
    ELSE IF url.host = "" THEN "copy"
    ELSE "aria2"

DownloadInit ==
    /\ BatchIdle
    /\ CloneIdle
    /\ PureIdle
    /\ dl \in [url : DownloadUrls, token : Tokens, config_headers : ConfigHeaders,
               at : {"called"}, processed : {Raises}, headers : {{}},
               transfer : {"none"}, args : {<<>>}]

\* url = config.get_url(url): an exception leaves download.
DownloadGetUrl ==
    /\ dl # <<>>
    /\ dl.at = "called"
    /\ LET r == get_url(dl.url, dl.token)
       IN  dl' = [dl EXCEPT !.processed = r,
                            !.at = IF r.raised THEN "raised" ELSE "headers"]
    /\ UNCHANGED <<bvars, cvars, pvars>>

\* headers = config.get_headers(url), on the URL get_url returned.
DownloadGetHeaders ==
    /\ dl # <<>>
    /\ dl.at = "headers"
    /\ dl' = [dl EXCEPT !.headers = get_headers(dl.processed.value, dl.token, dl.config_headers),
                        !.at = "dispatch"]
    /\ UNCHANGED <<bvars, cvars, pvars>>

\* gdown_download, the copy with write_bytes, or aria2_download, on the URL
\* get_url returned; aria2_download runs aria2c with the arguments parse_args
\* built.
DownloadTransfer ==
    /\ dl # <<>>
    /\ dl.at = "dispatch"
    /\ LET m == Method(dl.processed.value)
       IN  dl' = [dl EXCEPT !.transfer = m,
                            !.args = IF m = "aria2" THEN aria2_args(dl.processed.value, dl.headers)
                                     ELSE <<>>,
                            !.at = "done"]
    /\ UNCHANGED <<bvars, cvars, pvars>>

DownloadNext == DownloadGetUrl \/ DownloadGetHeaders \/ DownloadTransfer

DownloadSpec == DownloadInit /\ [][DownloadNext]_vars

(***************************************************************************)
(* Single calls of helpers that are functions of their arguments and of    *)
(* what the environment answers: the color choice of the two reporting     *)
(* loops, update_repo, extract_package and nested_zip_extractor.           *)
(***************************************************************************)
\* A call that is about to be made, and the call once it has returned.
Call(f, arg) == [f |-> f, arg |-> arg, at |-> "called", out |-> <<>>]
Done(c, out) == [c EXCEPT !.at = "returned", !.out = out]

\* The messages the reporting loops may be given: every combination of the
\* markers.
Messages == {Msg("message", marks) : marks \in SUBSET Markers}

\* What git and validate_repo may answer to update_repo.
RepoEnvs ==
    {Env(t, FALSE, rc, fc, {}, {}, u) :
        t \in BOOLEAN, rc \in {0, 1}, fc \in {0, 1}, u \in BOOLEAN}

\* The package formats extract_package tells apart by the file name's ending,
\* and what can go wrong: the extraction fails (tar exits non-zero, the
\* archive is damaged), or tar cannot be started at all.
Extensions == {".tar.lz4", ".zip", ".rar", ".7z"}
Failures == {"none", "fails", "missing"}

\* How a call ended: by returning or with an exception, and whether a line
\* was printed.
Ended(exception, printed) == [exception |-> exception, printed |-> printed]

\* utils.package_utils.extract_package.  For .tar.lz4 only CalledProcessError
\* is caught; for .zip and .rar every exception is.
extract_package(ext, failure) ==
    IF ext = ".tar.lz4"
    THEN CASE failure = "none"    -> Ended("none", FALSE)
           [] failure = "fails"   -> Ended("none", TRUE)
           [] failure = "missing" -> Ended("FileNotFoundError", FALSE)
    ELSE IF ext \in {".zip", ".rar"}
    THEN Ended("none", failure # "none")
    ELSE Ended("none", TRUE)

\* The file members of a zip archive, each the parts of its name split at '/'.
Members ==
    { <<"f">>, <<"a", "f">>, <<"a", "x", "f">>, <<"a", "x", "g">>,
      <<"b", "x", "f">>, <<"b", "x", "g">> }

\* parts[:i]
Parts(m, i) == SubSeq(m, 1, i)

\* dir_map[d]: the file members below directory d.
dir_map(archive, d) == {m \in archive : \E i \in 1..(Len(m) - 1) : Parts(m, i) = d}

\* dir_map.keys(): every directory that holds a file at some depth.
Subfolders(archive) == UNION {{Parts(m, i) : i \in 1..(Len(m) - 1)} : m \in archive}

\* "if len(subfolders) == 1: extract_to = os.path.join(extract_to, subfolders[0])":
\* the path below the extract_to argument that files are written under.
ExtractTo(archive) ==
    LET subfolders == {d \in Subfolders(archive) : dir_map(archive, d) # {}}
    IN  IF Cardinality(subfolders) = 1 THEN CHOOSE d \in subfolders : TRUE ELSE <<>>

\* The levels i = len(parts) - 1, ..., 1 at which the inner loop stops.
StopLevels(archive, m) ==
    {i \in 1..(Len(m) - 1) : Cardinality(dir_map(archive, Parts(m, i))) > 1 \/ i = 1}

\* target_path = os.path.join(extract_to, *parts[i-1:]) for the first such
\* level, counted from the deepest.
TargetPath(archive, m) ==
    LET i == CHOOSE i \in StopLevels(archive, m) : \A j \in StopLevels(archive, m) : j <= i
    IN  ExtractTo(archive) \o SubSeq(m, i, Len(m))

\* utils.package_utils.nested_zip_extractor: the files written, each with the
\* member it is copied from.  A member with no '/' in its name has no level
\* to stop at and is not written.
nested_zip_extractor(archive) ==
    {[member |-> m, path |-> TargetPath(archive, m)] :
        m \in {m \in archive : StopLevels(archive, m) # {}}}

PureInit ==
    /\ BatchIdle
    /\ CloneIdle
    /\ UrlIdle
    /\ \/ fn \in {Call("report_color", m) : m \in Messages}
       \/ fn \in {Call("update_repo", [fetch |-> f, pull |-> p, e |-> e]) :
                    f \in BOOLEAN, p \in BOOLEAN, e \in RepoEnvs}
       \/ fn \in {Call("extract_package", [ext |-> x, failure |-> y]) :
                    x \in Extensions, y \in Failures}
       \/ fn \in {Call("nested_zip_extractor", a) : a \in SUBSET Members}

\* The color choice of the reporting loop of batch_clone and of batch_update
\* for one message.
ApplyReportColor ==
    /\ fn # <<>>
    /\ fn.at = "called" /\ fn.f = "report_color"
    /\ fn' = Done(fn, [clone  |-> ReportColor("batch_clone", fn.arg),
                       update |-> ReportColor("batch_update", fn.arg)])
    /\ UNCHANGED <<bvars, cvars, uvars>>

ApplyUpdateRepo ==
    /\ fn # <<>>
    /\ fn.at = "called" /\ fn.f = "update_repo"
    /\ fn' = Done(fn, update_repo(fn.arg.fetch, fn.arg.pull, fn.arg.e))
    /\ UNCHANGED <<bvars, cvars, uvars>>

ApplyExtractPackage ==
    /\ fn # <<>>
    /\ fn.at = "called" /\ fn.f = "extract_package"
    /\ fn' = Done(fn, extract_package(fn.arg.ext, fn.arg.failure))
    /\ UNCHANGED <<bvars, cvars, uvars>>

ApplyNestedZipExtractor ==
    /\ fn # <<>>
    /\ fn.at = "called" /\ fn.f = "nested_zip_extractor"
    /\ fn' = Done(fn, nested_zip_extractor(fn.arg))
    /\ UNCHANGED <<bvars, cvars, uvars>>

PureNext ==
    \/ ApplyReportColor
    \/ ApplyUpdateRepo
    \/ ApplyExtractPackage
    \/ ApplyNestedZipExtractor

PureSpec == PureInit /\ [][PureNext]_vars

(***************************************************************************)
(* Properties.                                                             *)
(***************************************************************************)
Returned == pc = "done"

GitOp == op \in {"batch_clone", "batch_update"}

\* The entries of results recorded for request i.
Entries(i) == {k \in 1..Len(results) : results[k].req = i}

\* The per-item lines (status or failure lines) printed about request i.
ItemLines(i) == {k \in 1..Len(console) : console[k].kind # "blank" /\ console[k].req = i}

\* The requests whose executor raises out of the future.
Raising == {i \in 1..N : Executor(op, urls[i]).raised}

\* results holds exactly one entry per submitted request.
OneEntryEach == Len(results) = N /\ \A i \in 1..N : Cardinality(Entries(i)) = 1

\* The handler of the collection loop has run.
HandlerRan == \E k \in 1..Len(console) : console[k].kind = "error"

C3_NothingEscapes == ~raised

C3_Witness == Returned /\ ~raised /\ Raising # {} /\ HandlerRan

\* C4 as stated: when the batch returns, the progress counter has been
\* advanced exactly N times and reads N of N.
C4_Original == Returned => (pbar.n = N /\ pbar.total = N)

\* C5: the batch operation never returns while a submitted request is pending
\* or running: at return every request of the input list has been submitted
\* and executed to the end, also when a failure was caught while collecting.
C5_NoEarlyAbort == Returned => (Len(futures) = N /\ Finished = 1..N)

C5_Witness == Returned /\ N >= 2 /\ HandlerRan /\ Finished = 1..N

\* C6: if every execution eventually returns or raises and every thread that
\* can run is eventually scheduled, the batch operation eventually returns,
\* also when there are more requests than workers.
C6_Terminates == <>(pc = "done")

C6_Witness == Returned /\ N > MaxWorkers /\ Finished = 1..N

\* The color the contract gives the outcome of an execution: red for Failed
\* (something raised, or the process exited non-zero), yellow for Skipped
\* (destination exists), green for Success.
ExpectedColor(e) ==
    IF e.throws \/ (~e.exists /\ e.returncode # 0) THEN "red"
    ELSE IF e.exists THEN "yellow"
    ELSE "green"

SameColor(c, want) == c = want \/ (want = "red" /\ c = "flat_red")

\* C7 as stated: with quiet false the reporting step of batch_clone and
\* batch_update has printed, when the operation returns, exactly one line per
\* request, green for Success, yellow for Skipped, red for Failed: N lines
\* for N requests.
C7_Original ==
    (Returned /\ ~quiet /\ GitOp) =>
        /\ \A i \in 1..N :
              /\ Cardinality(ItemLines(i)) = 1
              /\ \A k \in ItemLines(i) : SameColor(console[k].color, ExpectedColor(urls[i]))
        /\ Cardinality({k \in 1..Len(console) : console[k].kind # "blank"}) = N

C9_Original == quiet => \A k \in 1..Len(console) : console[k].kind = "blank"

C11_Original ==
    (Returned /\ GitOp /\ ~quiet /\ ~HandlerRan) =>
        \A k \in 1..Len(results) :
            (Truthy(results[k].msg) /\ results[k].req # crashed) => ItemLines(results[k].req) # {}

\* C12: outcomes are write-once.  No step of the batch operation changes or
\* removes an entry of results once it has been recorded: every step leaves
\* the entries recorded so far where and as they are.
C12_WriteOnce ==
    [][\A k \in 1..Len(results) : Len(results') >= k /\ results'[k] = results[k]]_vars

\* Two outcomes are recorded and the reporting step has gone past the first.
C12_Witness == pc = "report_items" /\ rpos > 1 /\ Len(results) >= 2

\* One step of a work item: PENDING to RUNNING, RUNNING to FINISHED, and a
\* finished work item keeps its state and its outcome.
LifecycleStep(f, g) ==
    CASE f.state = "PENDING"  -> g.state \in {"PENDING", "RUNNING"}
      [] f.state = "RUNNING"  -> g.state \in {"RUNNING", "FINISHED"}
      [] f.state = "FINISHED" -> g = f

\* C13: each request goes from Pending to Running to a terminal state and
\* never leaves it, and the executor is invoked once per request: there is
\* never more than one work item per request and no work item is run again.
C13_Lifecycle ==
    [][/\ Len(futures') <= N
       /\ \A i \in 1..Len(futures) :
            Len(futures') >= i /\ LifecycleStep(futures[i], futures'[i])]_vars

\* One request is finished with an executor that raised, one is running and
\* one is still queued.
C13_Witness ==
    /\ \E i \in Finished : futures[i].outcome.raised
    /\ Running # {}
    /\ Pending # {}

\* C15: the displayed count is at most the number of requests that have
\* reached a terminal state and at most N in every reachable state, and no
\* step decreases it.
C15_Progress ==
    /\ [](pbar.n <= Cardinality(Finished) /\ pbar.n <= N)
    /\ [][pbar'.n >= pbar.n]_vars

\* The bar has been advanced for two of three requests, the third has not
\* finished.
C15_Witness == N = 3 /\ pbar.n = 2 /\ Cardinality(Finished) = 2

\* The external process of the request ran and exited with a non-zero status.
ProcessFailed(e) == ~e.throws /\ ~e.exists /\ e.returncode # 0

\* The batch operation has recorded request i as failed: the git helpers hold
\* a message saying so, batch_download has printed its failure line.
RecordedFailed(i) ==
    IF GitOp
    THEN \E k \in Entries(i) :
            Truthy(results[k].msg) /\ results[k].msg.marks \cap {"failed", "error"} # {}
    ELSE \E k \in ItemLines(i) : console[k].kind = "error"

\* C17 as stated: a request whose external process (git clone, git pull,
\* aria2c) exits with a non-zero status is recorded as Failed when the batch
\* operation returns.
C17_Original ==
    Returned => \A i \in 1..N : ProcessFailed(urls[i]) => RecordedFailed(i)

\* What request i observes when nothing but itself touches the filesystem the
\* call started on: the answer of os.path.exists and git clone's exit status.
AloneSaw(i) == CheckPath(i) \in call.fs0
AloneRc(i) == IF Dest(i) \notin call.fs0 /\ call.urls[i].up THEN 0 ELSE 128

\* C14 as stated: the requests of one batch share no mutable state, so under
\* every interleaving the existence check and the clone of a request see the
\* destination as the request would see it alone.
C14_Original ==
    \A i \in DOMAIN reqs :
        /\ reqs[i].at # "check" => reqs[i].saw = AloneSaw(i)
        /\ "clone" \in reqs[i].started => reqs[i].rc = AloneRc(i)

\* C16 as stated: a request whose destination exists when it starts has no
\* clone process started for it, and what it returns is the "already exists"
\* message, which the reporting step colors yellow.
C16_Original ==
    \A i \in DOMAIN reqs :
        reqs[i].destExisted =>
            /\ "clone" \notin reqs[i].started
            /\ reqs[i].at = "returned" =>
                 (reqs[i].msg.text = "already_exists" /\ CloneColor(reqs[i].msg) = "yellow")

\* The messages of the executions k, k+1, ... run one after the other, in list
\* order, from filesystem f: one of the runs the pool can produce.
RECURSIVE InOrder(_, _)
InOrder(k, f) ==
    IF k > Len(call.urls) THEN <<>>
    ELSE LET saw   == CheckPath(k) \in f
             taken == Dest(k) \in f
             ok    == ~saw /\ ~taken /\ call.urls[k].up
             e     == Env(FALSE, saw, IF ok THEN 0 ELSE 128, 0, {},
                          IF taken THEN {"already exists"} ELSE {}, FALSE)
         IN  <<clone_repo(e).value>> \o InOrder(k + 1, IF ok THEN f \cup {Dest(k)} ELSE f)

\* C18 as stated: with no destination present at the start, every run of the
\* batch classifies every request (green Success, yellow Skipped, red Failed)
\* as the run that executes them in list order does, whatever the order in
\* which the workers run.
C18_Original ==
    (call.fs0 = {} /\ Recorded = DOMAIN reqs) =>
        \A k \in 1..Len(cresults) :
            CloneColor(cresults[k].msg) = CloneColor(InOrder(1, {})[cresults[k].req])

\* C19: when the outcome of a request is recorded in the batch result, the
\* execution has returned and every process it started (git clone, git
\* checkout) has exited.
C19_SideEffectsFirst ==
    \A k \in 1..Len(cresults) :
        LET r == reqs[cresults[k].req]
        IN  r.at = "returned" /\ r.procs = {}

\* The outcome of a request that ran git clone and git checkout is recorded
\* while a process of another request is still running.
C19_Witness ==
    /\ \E k \in 1..Len(cresults) : reqs[cresults[k].req].started = {"clone", "checkout"}
    /\ \E i \in DOMAIN reqs : reqs[i].procs # {}

\* No token is configured: config.token is None or empty.
NoToken == dl.token \in {"None", ""}

\* C20 as stated: get_url raises exactly when the URL's host is civitai.com
\* and no token is configured, and download starts no transfer after a raise.
C20_Original ==
    dl.at # "called" =>
        /\ dl.at = "raised" <=> (dl.url.host = "civitai.com" /\ NoToken)
        /\ dl.at = "raised" => dl.transfer = "none"

\* C20: get_url raises exactly when urlparse rejects the URL, or the URL's
\* netloc is exactly "civitai.com" (no port) and the token is None or empty;
\* otherwise it returns a URL, and download starts no transfer after a raise.
C20_GetUrl ==
    dl.at # "called" =>
        /\ dl.at = "raised" <=>
             (~dl.url.valid \/ (Netloc(dl.url) = <<"civitai.com", "">> /\ NoToken))
        /\ dl.at = "raised" => dl.transfer = "none"
        /\ dl.at # "raised" => ~dl.processed.raised

\* get_url has raised on a civitai.com URL with an empty token.
C20_Witness ==
    /\ dl.at = "raised"
    /\ dl.url.valid
    /\ dl.url.host = "civitai.com"
    /\ dl.token = ""

\* C25 as stated: for every combination of cwd and directory, clone_repo skips
\* the clone exactly when the path git clone would write to exists.
C25_Original ==
    \A i \in DOMAIN reqs :
        reqs[i].at # "check" => (reqs[i].saw <=> reqs[i].destExisted)

\* C26 as stated: git checkout is started for a request only after its git
\* clone has exited with status 0.
C26_Original ==
    \A i \in DOMAIN reqs :
        "checkout" \in reqs[i].started =>
            /\ "clone" \in reqs[i].started
            /\ "clone" \notin reqs[i].procs
            /\ reqs[i].rc = 0

\* C23 as stated: for a URL whose host is not huggingface.co the headers
\* get_headers returns do not contain the token: they are the configured
\* headers, whatever the token is.
C23_Original ==
    (dl.at \in {"dispatch", "done"} /\ dl.processed.value.host # "huggingface.co") =>
        /\ dl.headers = dl.config_headers
        /\ \A h \in dl.headers : h.k # "Authorization"

\* The arguments that carry option k.
ArgsOf(k) == {j \in 1..Len(dl.args) : dl.args[j].key = k}

\* C28 as stated: aria2c gets one '--header=k: v' argument for each header and
\* no header argument when there is none, and one '--k=v' argument for each
\* scalar option of aria2_config.
C28_Original ==
    (dl.at = "done" /\ dl.transfer = "aria2") =>
        /\ \A h \in dl.headers :
             Cardinality({j \in ArgsOf("header") : dl.args[j] = KeyValue("header", Scalar(h))}) = 1
        /\ Cardinality(ArgsOf("header")) = Cardinality(dl.headers)
        /\ LET config == aria2_config(dl.processed.value, dl.headers)
           IN  \A c \in 1..Len(config) :
                 (config[c].v.kind = "scalar" /\ config[c].k # "_url") =>
                    /\ Cardinality(ArgsOf(config[c].k)) = 1
                    /\ \E j \in ArgsOf(config[c].k) : dl.args[j] = KeyValue(config[c].k, config[c].v)

\* The call of helper f has returned.
Applied(f) == fn.f = f /\ fn.at = "returned"

\* C21 as stated: extract_package raises CalledProcessError when the
\* extraction fails.
C21_Original ==
    (Applied("extract_package") /\ fn.arg.failure = "fails") =>
        fn.out.exception = "CalledProcessError"

\* C22 as stated: nested_zip_extractor writes every file member of the
\* archive, at any depth, to exactly one path, and no two members to the same
\* path.
C22_Original ==
    Applied("nested_zip_extractor") =>
        /\ \A m \in fn.arg : Cardinality({w \in fn.out : w.member = m}) = 1
        /\ \A v, w \in fn.out : v.member # w.member => v.path # w.path

\* C24 as stated: the reporting loops of batch_clone and batch_update choose
\* the same color for every message.
C24_Original == Applied("report_color") => fn.out.clone = fn.out.update

\* C27 as stated: when update_repo runs git fetch and it exits non-zero, the
\* message returned reports an error whatever the pull does.
C27_Original ==
    (Applied("update_repo") /\ fn.arg.fetch /\ ~fn.arg.e.throws /\ fn.arg.e.fetchcode # 0) =>
        "error" \in fn.out.value.marks

====
